---- MODULE Spec2Model ----
(***************************************************************************)
(* Article chatbot: src/chatbot.py (class ArticleChatbot, chunk_text) and  *)
(* the HTTP handlers that drive it (src/unnamed/part_000, "app 2.py").     *)
(*                                                                         *)
(* A Python str is modelled as a sequence of one-character strings, so     *)
(* that slicing, substring search, lower(), split(), strip() and replace() *)
(* are computed rather than assumed.  None is the tuple <<"None">>, a str  *)
(* s is the tuple <<"str", s>>; a dict is a function whose DOMAIN is its   *)
(* key set.                                                                *)
(***************************************************************************)
EXTENDS Integers, Sequences, FiniteSets, TLC

VARIABLES
    sessions,   \* session id -> ArticleChatbot object (or NoSession)
    last,       \* the most recent chat_with_article call and its outcome
    http,       \* the most recent HTTP request and its response
    call        \* the most recent direct call of a pure function

vars == <<sessions, last, http, call>>

----------------------------------------------------------------------------
(* Python str primitives                                                   *)

UpperCase ==
    <<"A","B","C","D","E","F","G","H","I","J","K","L","M",
      "N","O","P","Q","R","S","T","U","V","W","X","Y","Z">>

LowerCase ==
    <<"a","b","c","d","e","f","g","h","i","j","k","l","m",
      "n","o","p","q","r","s","t","u","v","w","x","y","z">>

Whitespace == {" ", "\n", "\t"}

Digit == <<"0","1","2","3","4","5","6","7","8","9">>

Min(a, b) == IF a < b THEN a ELSE b

ToLower == [c \in {UpperCase[i] : i \in 1..Len(UpperCase)} |->
               LowerCase[CHOOSE i \in 1..Len(UpperCase) : UpperCase[i] = c]]

\* str.lower() on one character
lower_char(c) == IF c \in DOMAIN ToLower THEN ToLower[c] ELSE c

\* the sequence <<f(1), ..., f(n)>>
Tabulate(n, f(_)) == SubSeq([i \in 1..n |-> f(i)], 1, n)

\* s.lower()
lower(s) == Tabulate(Len(s), LAMBDA i : lower_char(s[i]))

\* s[a:b] for 0 <= a, Python slice bounds (0-based, end exclusive, clipped)
slice(s, a, b) == SubSeq(s, a + 1, Min(b, Len(s)))

\* t in s  (substring test)
contains(s, t) ==
    \E i \in 1..(Len(s) - Len(t) + 1) :
        \A j \in 1..Len(t) : s[i + j - 1] = t[j]

\* s.split(): the maximal runs of non-whitespace characters, left to right
TokenStart(s, i) == s[i] \notin Whitespace /\ (i = 1 \/ s[i - 1] \in Whitespace)

TokenEnd(s, i) ==
    CHOOSE j \in i..Len(s) :
        /\ \A k \in i..j : s[k] \notin Whitespace
        /\ (j = Len(s) \/ s[j + 1] \in Whitespace)

split(s) ==
    LET starts == SelectSeq(Tabulate(Len(s), LAMBDA i : i), LAMBDA i : TokenStart(s, i))
    IN  Tabulate(Len(starts), LAMBDA k : SubSeq(s, starts[k], TokenEnd(s, starts[k])))

\* s.strip()
strip(s) ==
    LET keep == {i \in 1..Len(s) : s[i] \notin Whitespace}
    IN  IF keep = {} THEN << >>
        ELSE SubSeq(s, CHOOSE i \in keep : \A j \in keep : i <= j,
                       CHOOSE i \in keep : \A j \in keep : j <= i)

Quot == <<"&","q","u","o","t",";">>

\* s.replace('&quot;', '"').  Occurrences of '&quot;' cannot overlap (the
\* '&' occurs only at its start), so the left-to-right scan replaces every
\* occurrence.
replace_quot(s) ==
    LET occ(i)  == i + 5 <= Len(s) /\ \A j \in 1..6 : s[i + j - 1] = Quot[j]
        tail(i) == \E p \in 1..5 : i - p >= 1 /\ occ(i - p)
        idx     == SelectSeq(Tabulate(Len(s), LAMBDA i : i), LAMBDA i : ~tail(i))
    IN  Tabulate(Len(idx), LAMBDA k : IF occ(idx[k]) THEN "\"" ELSE s[idx[k]])

\* sep.join(parts)
RECURSIVE join(_, _)
join(sep, parts) ==
    IF Len(parts) = 0 THEN << >>
    ELSE IF Len(parts) = 1 THEN parts[1]
    ELSE parts[1] \o sep \o join(sep, Tail(parts))

\* Python values
None == <<"None">>
Str(s) == <<"str", s>>
IsStr(v) == v[1] = "str"

\* outcomes of a call: a returned value or a raised exception
Return(v) == [kind |-> "return", value |-> v, exc |-> "-"]
Raise(e)  == [kind |-> "raise", value |-> None, exc |-> e]

\* d.get(key, default)
get(d, key, default) == IF key \in DOMAIN d THEN d[key] ELSE default

----------------------------------------------------------------------------
(* src/chatbot.py                                                          *)

\* chunk_text with each slice one character too long: text[i:i + chunk_size + 1]
chunk_text_overlap(text, chunk_size) ==
    LET n == (Len(text) + chunk_size - 1) \div chunk_size
    IN  Tabulate(n, LAMBDA k : slice(text, (k - 1) * chunk_size, (k - 1) * chunk_size + chunk_size + 1))

\* def chunk_text(text, chunk_size=100):
\*     return [text[i:i + chunk_size] for i in range(0, len(text), chunk_size)]
chunk_text(text, chunk_size) ==
    LET n == (Len(text) + chunk_size - 1) \div chunk_size     \* len(range(0, len(text), chunk_size))
    IN  Tabulate(n, LAMBDA k : slice(text, (k - 1) * chunk_size, (k - 1) * chunk_size + chunk_size))

\* conversation_history[-4:]
last4(history) == SubSeq(history, IF Len(history) > 4 THEN Len(history) - 3 ELSE 1, Len(history))

\* conversation_history[-3:]
last3(history) == SubSeq(history, IF Len(history) > 3 THEN Len(history) - 2 ELSE 1, Len(history))

NoInformation ==
    <<"N","o"," ","s","p","e","c","i","f","i","c"," ","i","n","f","o","r","m","a","t","i","o","n"," ",
      "f","o","u","n","d"," ","i","n"," ","t","h","e"," ","a","r","t","i","c","l","e",".">>

\* the for-loop of get_relevant_context without its break
RECURSIVE scan_chunks_no_break(_, _, _, _, _)
scan_chunks_no_break(chunks, query_terms, top_k, i, acc) ==
    IF i > Len(chunks) THEN acc
    ELSE IF \E t \in 1..Len(query_terms) : contains(lower(chunks[i]), query_terms[t])
         THEN scan_chunks_no_break(chunks, query_terms, top_k, i + 1,
                                   Append(acc, strip(replace_quot(chunks[i]))))
         ELSE scan_chunks_no_break(chunks, query_terms, top_k, i + 1, acc)

\* the for-loop of get_relevant_context over self.chunks from index i on,
\* with relevant_chunks = acc
RECURSIVE scan_chunks(_, _, _, _, _)
scan_chunks(chunks, query_terms, top_k, i, acc) ==
    IF i > Len(chunks) THEN acc
    ELSE LET chunk_lower == lower(chunks[i])
         IN  IF \E t \in 1..Len(query_terms) : contains(chunk_lower, query_terms[t])
             THEN LET cleaned_chunk == strip(replace_quot(chunks[i]))
                      relevant == Append(acc, cleaned_chunk)
                  IN  IF Len(relevant) >= top_k THEN relevant
                      ELSE scan_chunks(chunks, query_terms, top_k, i + 1, relevant)
             ELSE scan_chunks(chunks, query_terms, top_k, i + 1, acc)

RECURSIVE history_terms(_)
history_terms(turns) ==
    IF Len(turns) = 0 THEN << >>
    ELSE split(lower(turns[1][2])) \o history_terms(Tail(turns))

\* ArticleChatbot.get_relevant_context(self, query, top_k=3)
get_relevant_context(self, query, top_k) ==
    LET query_terms == split(lower(query)) \o history_terms(last3(self.conversation_history))
        relevant_chunks == scan_chunks(self.chunks, query_terms, top_k, 1, << >>)
    IN  IF Len(relevant_chunks) = 0 THEN NoInformation
        ELSE join(<<" ">>, relevant_chunks)

\* 'Published on '
PublishedOn ==
    <<"P","u","b","l","i","s","h","e","d"," ","o","n"," ">>

\* 'Publication date not available'
DateNotAvailable ==
    <<"P","u","b","l","i","c","a","t","i","o","n"," ","d","a","t","e"," ","n","o","t"," ","a",
      "v","a","i","l","a","b","l","e">>

\* 'Error retrieving publication date'
DateError ==
    <<"E","r","r","o","r"," ","r","e","t","r","i","e","v","i","n","g"," ","p","u","b","l","i",
      "c","a","t","i","o","n"," ","d","a","t","e">>

\* 'Author: '
AuthorPrefix ==
    <<"A","u","t","h","o","r",":"," ">>

\* 'Author: N/A'
AuthorNA ==
    <<"A","u","t","h","o","r",":"," ","N","/","A">>

\* 'No summary available.'
NoSummary ==
    <<"N","o"," ","s","u","m","m","a","r","y"," ","a","v","a","i","l","a","b","l","e",".">>

\* '...'
Ellipsis ==
    <<".",".",".">>

\* 'None'
NoneText ==
    <<"N","o","n","e">>

\* 'What is this article about?'
PrimingQuestion ==
    <<"W","h","a","t"," ","i","s"," ","t","h","i","s"," ","a","r","t","i","c","l","e"," ","a",
      "b","o","u","t","?">>

\* 'You are an AI assistant helping users understand this article. Here is the relevant content:\n\n'
PromptHead ==
    <<"Y","o","u"," ","a","r","e"," ","a","n"," ","A","I"," ","a","s","s","i","s","t","a","n",
      "t"," ","h","e","l","p","i","n","g"," ","u","s","e","r","s"," ","u","n","d","e","r","s",
      "t","a","n","d"," ","t","h","i","s"," ","a","r","t","i","c","l","e","."," ","H","e","r",
      "e"," ","i","s"," ","t","h","e"," ","r","e","l","e","v","a","n","t"," ","c","o","n","t",
      "e","n","t",":","\n","\n">>

\* '\n\nPlease help answer questions about this article. Use both the article content and our conversation history to provide relevant answers.'
PromptTail ==
    <<"\n","\n","P","l","e","a","s","e"," ","h","e","l","p"," ","a","n","s","w","e","r"," ","q",
      "u","e","s","t","i","o","n","s"," ","a","b","o","u","t"," ","t","h","i","s"," ","a","r",
      "t","i","c","l","e","."," ","U","s","e"," ","b","o","t","h"," ","t","h","e"," ","a","r",
      "t","i","c","l","e"," ","c","o","n","t","e","n","t"," ","a","n","d"," ","o","u","r"," ",
      "c","o","n","v","e","r","s","a","t","i","o","n"," ","h","i","s","t","o","r","y"," ","t",
      "o"," ","p","r","o","v","i","d","e"," ","r","e","l","e","v","a","n","t"," ","a","n","s",
      "w","e","r","s",".">>

\* 'what'
W_what ==
    <<"w","h","a","t">>

\* 'tell me about'
W_tell_me_about ==
    <<"t","e","l","l"," ","m","e"," ","a","b","o","u","t">>

\* 'when'
W_when ==
    <<"w","h","e","n">>

\* 'date'
W_date ==
    <<"d","a","t","e">>

\* 'time'
W_time ==
    <<"t","i","m","e">>

\* 'who'
W_who ==
    <<"w","h","o">>

\* 'author'
W_author ==
    <<"a","u","t","h","o","r">>

\* 'summary'
W_summary ==
    <<"s","u","m","m","a","r","y">>

\* 'overview'
W_overview ==
    <<"o","v","e","r","v","i","e","w">>

\* 'about'
W_about ==
    <<"a","b","o","u","t">>

MonthName ==
    <<<<"J","a","n","u","a","r","y">>,
      <<"F","e","b","r","u","a","r","y">>,
      <<"M","a","r","c","h">>,
      <<"A","p","r","i","l">>,
      <<"M","a","y">>,
      <<"J","u","n","e">>,
      <<"J","u","l","y">>,
      <<"A","u","g","u","s","t">>,
      <<"S","e","p","t","e","m","b","e","r">>,
      <<"O","c","t","o","b","e","r">>,
      <<"N","o","v","e","m","b","e","r">>,
      <<"D","e","c","e","m","b","e","r">>>>

----------------------------------------------------------------------------
(* datetime.strptime(date, '%Y-%m-%d') and strftime('%B %d, %Y')           *)

IsDigit(c) == \E i \in 1..Len(Digit) : Digit[i] = c

DigitVal(c) == (CHOOSE i \in 1..Len(Digit) : Digit[i] = c) - 1

\* value of a non-empty string of decimal digits
RECURSIVE Number(_)
Number(ds) ==
    IF Len(ds) = 0 THEN 0
    ELSE 10 * Number(SubSeq(ds, 1, Len(ds) - 1)) + DigitVal(ds[Len(ds)])

IsLeap(y) == (y % 4 = 0 /\ y % 100 # 0) \/ y % 400 = 0

DaysInMonth(y, m) ==
    IF m = 2 THEN (IF IsLeap(y) THEN 29 ELSE 28)
    ELSE IF m \in {4, 6, 9, 11} THEN 30 ELSE 31

\* %m is 1[0-2]|0[1-9]|[1-9];  %d is 3[01]|[12]\d|0[1-9]|[1-9]| [1-9]
MonthField(f) ==
    /\ Len(f) \in {1, 2}
    /\ \A i \in 1..Len(f) : IsDigit(f[i])
    /\ Number(f) \in 1..12

DayField(f) ==
    \/ /\ Len(f) \in {1, 2}
       /\ \A i \in 1..Len(f) : IsDigit(f[i])
       /\ Number(f) \in 1..31
    \/ /\ Len(f) = 2
       /\ f[1] = " "
       /\ IsDigit(f[2])
       /\ DigitVal(f[2]) \in 1..9

DayValue(f) == IF f[1] = " " THEN DigitVal(f[2]) ELSE Number(f)

\* the ways s splits as YYYY-m-d with the whole of s consumed
DateSplits(s) ==
    {p \in {1, 2} \X {1, 2} :
        /\ Len(s) = 6 + p[1] + p[2]
        /\ \A i \in 1..4 : IsDigit(s[i])
        /\ s[5] = "-"
        /\ s[6 + p[1]] = "-"
        /\ MonthField(SubSeq(s, 6, 5 + p[1]))
        /\ DayField(SubSeq(s, 7 + p[1], Len(s)))}

\* datetime.strptime(s, '%Y-%m-%d'): the date, or ValueError when s does
\* not match the format, has text left over, or names no calendar day
\* (year 0, 30 February)
strptime(s) ==
    IF DateSplits(s) = {} THEN Raise("ValueError")
    ELSE LET p == CHOOSE q \in DateSplits(s) : TRUE
             y == Number(SubSeq(s, 1, 4))
             m == Number(SubSeq(s, 6, 5 + p[1]))
             d == DayValue(SubSeq(s, 7 + p[1], Len(s)))
         IN  IF y >= 1 /\ d <= DaysInMonth(y, m)
             THEN Return([year |-> y, month |-> m, day |-> d])
             ELSE Raise("ValueError")

\* decimal digits of n >= 0, no padding
RECURSIVE Decimal(_)
Decimal(n) ==
    IF n < 10 THEN <<Digit[n + 1]>>
    ELSE Append(Decimal(n \div 10), Digit[(n % 10) + 1])

\* date_obj.strftime('%B %d, %Y'): full month name, day zero-padded to two
\* digits, year in decimal
strftime(date) ==
    MonthName[date.month] \o <<" ">>
        \o (IF date.day < 10 THEN <<"0">> ELSE << >>) \o Decimal(date.day)
        \o <<",", " ">> \o Decimal(date.year)

----------------------------------------------------------------------------
(* ArticleChatbot: the fallback handlers                                   *)

TruncateAt == 100

\* text[:100] + '...' if len(text) > 100 else text
truncate(text) ==
    IF Len(text) > TruncateAt THEN slice(text, 0, TruncateAt) \o Ellipsis ELSE text

\* _handle_when_question with the two fixed sentences exchanged
_handle_when_question_swapped(self) ==
    LET date == get(self.article_data, "publication_date", Str(<< >>))
    IN  IF date # None /\ date # Str(<< >>)
        THEN LET date_obj == strptime(date[2])
             IN  IF date_obj.kind = "return"
                 THEN Return(Str(PublishedOn \o strftime(date_obj.value)))
                 ELSE Return(Str(DateNotAvailable))
        ELSE Return(Str(DateError))

\* ArticleChatbot._handle_when_question(self)
_handle_when_question(self) ==
    LET date == get(self.article_data, "publication_date", Str(<< >>))
    IN  IF date # None /\ date # Str(<< >>)
        THEN LET date_obj == strptime(date[2])
             IN  IF date_obj.kind = "return"
                 THEN Return(Str(PublishedOn \o strftime(date_obj.value)))
                 ELSE Return(Str(DateError))          \* except Exception
        ELSE Return(Str(DateNotAvailable))

\* str(v) inside an f-string
format(v) == IF v = None THEN NoneText ELSE v[2]

\* ArticleChatbot._handle_who_question(self)
_handle_who_question(self) ==
    IF "author" \in DOMAIN self.article_data
    THEN Return(Str(AuthorPrefix \o format(self.article_data["author"])))
    ELSE Return(Str(AuthorNA))

\* ArticleChatbot._handle_summary_question(self)
_handle_summary_question(self) ==
    LET summary == get(self.article_data, "teaser_text", Str(NoSummary))
    IN  IF summary = None THEN Raise("TypeError")      \* len(None)
        ELSE Return(Str(truncate(summary[2])))

DefaultTopK == 3

\* ArticleChatbot._handle_what_question(self, question)
_handle_what_question(self, question) ==
    Return(Str(truncate(get_relevant_context(self, question, DefaultTopK))))

\* ArticleChatbot._handle_general_question(self, question)
_handle_general_question(self, question) ==
    Return(Str(truncate(get_relevant_context(self, question, DefaultTopK))))

\* any(word in user_input_lower for word in words)
any_word(user_input_lower, words) == \E w \in words : contains(user_input_lower, w)

\* _handle_basic_response with the 'who' branch tested before the 'when' branch
_handle_basic_response_who_first(self, user_input) ==
    LET user_input_lower == lower(user_input)
    IN  IF any_word(user_input_lower, {W_what, W_tell_me_about})
        THEN _handle_what_question(self, user_input)
        ELSE IF any_word(user_input_lower, {W_who, W_author})
        THEN _handle_who_question(self)
        ELSE IF any_word(user_input_lower, {W_when, W_date, W_time})
        THEN _handle_when_question(self)
        ELSE IF any_word(user_input_lower, {W_summary, W_overview, W_about})
        THEN _handle_summary_question(self)
        ELSE _handle_general_question(self, user_input)

\* ArticleChatbot._handle_basic_response(self, user_input)
_handle_basic_response(self, user_input) ==
    LET user_input_lower == lower(user_input)
    IN  IF any_word(user_input_lower, {W_what, W_tell_me_about})
        THEN _handle_what_question(self, user_input)
        ELSE IF any_word(user_input_lower, {W_when, W_date, W_time})
        THEN _handle_when_question(self)
        ELSE IF any_word(user_input_lower, {W_who, W_author})
        THEN _handle_who_question(self)
        ELSE IF any_word(user_input_lower, {W_summary, W_overview, W_about})
        THEN _handle_summary_question(self)
        ELSE _handle_general_question(self, user_input)

----------------------------------------------------------------------------
(* ArticleChatbot: construction and chat_with_article                      *)

\* What the primary mechanism does with one send_message(prompt):
\*   send = "error"            send_message raises
\*   send = "ok", text = Return(Str(r))   the response's text is r
\*   send = "ok", text = Raise(..)        a response object comes back, and
\*                                        reading response.text raises
SendError == [send |-> "error", text |-> Raise("SendError")]
Reply(r) == [send |-> "ok", text |-> Return(Str(r))]
ReplyNoText == [send |-> "ok", text |-> Raise("ValueError")]

\* chat_with_article recording the fallback exchange in the ledger
chat_with_article_remembers_fallback(self, user_input, mech) ==
    IF mech.send = "error"
    THEN LET r == _handle_basic_response(self, user_input)
             h == self.conversation_history \o
                    <<<<"user", user_input>>, <<"assistant", format(r.value)>>>>
         IN  [self |-> [self EXCEPT !.conversation_history = h], result |-> r]
    ELSE LET h1 == Append(self.conversation_history, <<"user", user_input>>)
             s1 == [self EXCEPT !.conversation_history = h1]
         IN  IF mech.text.kind = "raise"
             THEN [self |-> s1, result |-> _handle_basic_response(s1, user_input)]
             ELSE LET h2 == Append(h1, <<"assistant", mech.text.value[2]>>)
                  IN  [self |-> [self EXCEPT !.conversation_history = h2],
                       result |-> Return(mech.text.value)]

\* chat_with_article appending the assistant turn before the user turn
chat_with_article_assistant_first(self, user_input, mech) ==
    IF mech.send = "error"
    THEN [self |-> self, result |-> _handle_basic_response(self, user_input)]
    ELSE IF mech.text.kind = "raise"
    THEN LET s1 == [self EXCEPT !.conversation_history =
                                  Append(self.conversation_history, <<"user", user_input>>)]
         IN  [self |-> s1, result |-> _handle_basic_response(s1, user_input)]
    ELSE LET h2 == self.conversation_history \o
                     <<<<"assistant", mech.text.value[2]>>, <<"user", user_input>>>>
         IN  [self |-> [self EXCEPT !.conversation_history = h2],
              result |-> Return(mech.text.value)]

\* ArticleChatbot.chat_with_article(self, user_input) when the mechanism
\* answers the prompt with mech: the object afterwards and the outcome.
\* The prompt (context, last three turns, question) goes to the mechanism
\* and nowhere else; building it changes nothing and cannot raise.
chat_with_article(self, user_input, mech) ==
    IF mech.send = "error"
    THEN [self |-> self, result |-> _handle_basic_response(self, user_input)]
    ELSE LET h1 == Append(self.conversation_history, <<"user", user_input>>)
             s1 == [self EXCEPT !.conversation_history = h1]
         IN  IF mech.text.kind = "raise"
             THEN [self |-> s1, result |-> _handle_basic_response(s1, user_input)]
             ELSE LET h2 == Append(h1, <<"assistant", mech.text.value[2]>>)
                  IN  [self |-> [self EXCEPT !.conversation_history = h2],
                       result |-> Return(mech.text.value)]

DefaultChunkSize == 100

NoSession == [article_data |-> << >>, chunks |-> << >>, conversation_history |-> << >>,
              constructed |-> FALSE]

\* the initial prompt of _initialize_chat
initial_prompt(context) == PromptHead \o context \o PromptTail

\* _get_article_data finding no row for the id
NotFound == <<"NotFound">>

\* ArticleChatbot._initialize_chat(self) when the mechanism answers the
\* priming prompt with mech
_initialize_chat(self, mech) ==
    LET context == get_relevant_context(self, PrimingQuestion, DefaultTopK)
    IN  IF mech.send = "error"
        THEN [self |-> self, result |-> Raise("SendError")]
        ELSE [self |-> [self EXCEPT !.conversation_history =
                                      Append(self.conversation_history,
                                             <<"system", initial_prompt(context)>>)],
              result |-> Return(None)]

\* ArticleChatbot.__init__(self, article_id): lookup is what _get_article_data
\* finds (a row as a dict, or NotFound, which it raises as ValueError), mech
\* what the mechanism does with the priming send_message.  An exception
\* leaves no object behind.

__init__(lookup, mech) ==
    IF lookup = NotFound
    THEN [self |-> NoSession, result |-> Raise("ValueError")]
    ELSE LET article_text == get(lookup, "full_text", Str(<< >>))
         IN  IF article_text = None
             THEN [self |-> NoSession, result |-> Raise("TypeError")]     \* len(None) in chunk_text
             ELSE LET s0 == [article_data |-> lookup,
                             chunks |-> chunk_text(article_text[2], DefaultChunkSize),
                             conversation_history |-> << >>,
                             constructed |-> TRUE]
                      primed == _initialize_chat(s0, mech)
                  IN  IF primed.result.kind = "raise"
                      THEN [self |-> NoSession, result |-> primed.result]
                      ELSE primed

\* 'The sky is blue. '
SkySentence ==
    <<"T","h","e"," ","s","k","y"," ","i","s"," ","b","l","u","e","."," ">>

\* 'A short piece about sky color.'
SkyTeaser ==
    <<"A"," ","s","h","o","r","t"," ","p","i","e","c","e"," ","a","b","o","u","t"," ","s","k",
      "y"," ","c","o","l","o","r",".">>

\* 'Jane Doe'
JaneDoe ==
    <<"J","a","n","e"," ","D","o","e">>

\* '  He said &quot;Hello World&quot; to the sky.\n'
QuoteLead ==
    <<" "," ","H","e"," ","s","a","i","d"," ","&","q","u","o","t",";","H","e","l","l","o"," ",
      "W","o","r","l","d","&","q","u","o","t",";"," ","t","o"," ","t","h","e"," ","s","k","y",
      ".","\n">>

\* '0123456789'
TenDigits ==
    <<"0","1","2","3","4","5","6","7","8","9">>

\* 'Look UP: the SKY again '
QuoteThird ==
    <<"L","o","o","k"," ","U","P",":"," ","t","h","e"," ","S","K","Y"," ","a","g","a","i","n",
      " ">>

\* '&quot;sky&quot; three '
QuoteFourth ==
    <<"&","q","u","o","t",";","s","k","y","&","q","u","o","t",";"," ","t","h","r","e","e"," ">>

\* 'sky four '
QuoteFifth ==
    <<"s","k","y"," ","f","o","u","r"," ">>

\* 'sky five'
QuoteSixth ==
    <<"s","k","y"," ","f","i","v","e">>

\* 'A long teaser. '
TeaserSentence ==
    <<"A"," ","l","o","n","g"," ","t","e","a","s","e","r","."," ">>

\* 'Rain fell on the town.'
RainText ==
    <<"R","a","i","n"," ","f","e","l","l"," ","o","n"," ","t","h","e"," ","t","o","w","n",".">>

\* 'Weather.'
RainTeaser ==
    <<"W","e","a","t","h","e","r",".">>

\* '2024-03-05'
D_2024_03_05 ==
    <<"2","0","2","4","-","0","3","-","0","5">>

\* '2024-02-30'
D_2024_02_30 ==
    <<"2","0","2","4","-","0","2","-","3","0">>

\* 'what color?'
Q_what_color ==
    <<"w","h","a","t"," ","c","o","l","o","r","?">>

\* 'Give me a summary'
Q_summary ==
    <<"G","i","v","e"," ","m","e"," ","a"," ","s","u","m","m","a","r","y">>

\* 'sky'
Q_sky ==
    <<"s","k","y">>

\* 'It is blue.'
R_blue ==
    <<"I","t"," ","i","s"," ","b","l","u","e",".">>

\* 'Hello'
R_hello ==
    <<"H","e","l","l","o">>


----------------------------------------------------------------------------
(* Inputs: article rows, questions, replies                                *)

RECURSIVE Repeat(_, _)
Repeat(s, n) == IF n = 0 THEN << >> ELSE s \o Repeat(s, n - 1)

\* s.ljust(n, c)
LJust(s, c, n) == s \o Tabulate(n - Len(s), LAMBDA i : c)

\* "The sky is blue. " * 10: two fragments, 100 and 70 characters
SkyText == Repeat(SkySentence, 10)

\* six fragments: the first with leading blanks and &quot;, the second of
\* digits only, the third to sixth each naming the sky
QuoteText ==
    LJust(QuoteLead, "-", 100) \o Repeat(TenDigits, 10) \o LJust(QuoteThird, "=", 100)
        \o LJust(QuoteFourth, "+", 100) \o LJust(QuoteFifth, "*", 100) \o QuoteSixth

\* 120 characters
LongTeaser == Repeat(TeaserSentence, 8)

Row(pairs) == [k \in {p[1] : p \in pairs} |-> (CHOOSE p \in pairs : p[1] = k)[2]]

ArticleSky ==
    Row({<<"full_text", Str(SkyText)>>, <<"teaser_text", Str(SkyTeaser)>>,
         <<"author", Str(JaneDoe)>>, <<"publication_date", Str(D_2024_03_05)>>})

\* teaser_text is NULL in the table
ArticleQuote ==
    Row({<<"full_text", Str(QuoteText)>>, <<"teaser_text", None>>,
         <<"publication_date", Str(D_2024_02_30)>>})

ArticleEmpty ==
    Row({<<"full_text", Str(<< >>)>>, <<"teaser_text", Str(LongTeaser)>>,
         <<"author", None>>, <<"publication_date", None>>})

\* the columns the query of _get_article_data selects
ArticleRain ==
    Row({<<"full_text", Str(RainText)>>, <<"teaser_text", Str(RainTeaser)>>})

\* full_text is NULL in the table
ArticleNoText ==
    Row({<<"full_text", None>>, <<"teaser_text", Str(RainTeaser)>>})

Articles == {ArticleSky, ArticleQuote, ArticleEmpty, ArticleRain}

Questions == {Q_what_color, Q_summary}

Replies == {R_blue}

\* most turns a ledger holds
MaxTurns == 5

----------------------------------------------------------------------------
(* The session state machine                                               *)

Sessions == {1}

NoCall == [op |-> "none"]

Init ==
    /\ sessions = [s \in Sessions |-> NoSession]
    /\ last = NoCall
    /\ http = NoCall
    /\ call = NoCall

\* chatbot = ArticleChatbot(article_id)
New(s) ==
    /\ ~sessions[s].constructed
    /\ \E lookup \in Articles \cup {NotFound}, mech \in {SendError, Reply(R_hello)} :
         LET r == __init__(lookup, mech)
         IN  /\ sessions' = [sessions EXCEPT ![s] = r.self]
             /\ last' = [op |-> "__init__", session |-> s, lookup |-> lookup,
                         mech |-> mech, result |-> r.result]
    /\ UNCHANGED <<http, call>>

Growth(mech) == IF mech.send = "error" THEN 0 ELSE IF mech.text.kind = "raise" THEN 1 ELSE 2

\* chatbot.chat_with_article(user_input)
Ask(s) ==
    /\ sessions[s].constructed
    /\ \E user_input \in Questions, mech \in {SendError, ReplyNoText} \cup {Reply(r) : r \in Replies} :
         /\ Len(sessions[s].conversation_history) + Growth(mech) <= MaxTurns
         /\ LET r == chat_with_article(sessions[s], user_input, mech)
            IN  /\ sessions' = [sessions EXCEPT ![s] = r.self]
                /\ last' = [op |-> "chat_with_article", session |-> s,
                            user_input |-> user_input, mech |-> mech,
                            before |-> sessions[s].conversation_history,
                            result |-> r.result]
    /\ UNCHANGED <<http, call>>

Next == \E s \in Sessions : New(s) \/ Ask(s)

Spec == Init /\ [][Next]_vars

\* '2024-3-5'
D_2024_3_5 ==
    <<"2","0","2","4","-","3","-","5">>

\* '2024-02-29'
D_2024_02_29 ==
    <<"2","0","2","4","-","0","2","-","2","9">>

\* '2023-02-29'
D_2023_02_29 ==
    <<"2","0","2","3","-","0","2","-","2","9">>

\* '05/03/2024'
D_slashes ==
    <<"0","5","/","0","3","/","2","0","2","4">>

\* '2024-03-05T10:00:00'
D_timestamp ==
    <<"2","0","2","4","-","0","3","-","0","5","T","1","0",":","0","0",":","0","0">>

\* '0000-01-01'
D_0000_01_01 ==
    <<"0","0","0","0","-","0","1","-","0","1">>

\* 'What who?'
Q_what_who ==
    <<"W","h","a","t"," ","w","h","o","?">>

\* 'when who'
Q_when_who ==
    <<"w","h","e","n"," ","w","h","o">>

\* 'Who is the author'
Q_who_author ==
    <<"W","h","o"," ","i","s"," ","t","h","e"," ","a","u","t","h","o","r">>

\* 'Tell me about the sky'
Q_tell_me_about ==
    <<"T","e","l","l"," ","m","e"," ","a","b","o","u","t"," ","t","h","e"," ","s","k","y">>

\* 'WHEN was it published'
Q_WHEN ==
    <<"W","H","E","N"," ","w","a","s"," ","i","t"," ","p","u","b","l","i","s","h","e","d">>

\* 'about time'
Q_about_time ==
    <<"a","b","o","u","t"," ","t","i","m","e">>

\* 'author overview'
Q_overview_author ==
    <<"a","u","t","h","o","r"," ","o","v","e","r","v","i","e","w">>

\* 'About?'
Q_about ==
    <<"A","b","o","u","t","?">>

\* 'Published on March 05, 2024'
Published_March_05_2024 ==
    <<"P","u","b","l","i","s","h","e","d"," ","o","n"," ","M","a","r","c","h"," ","0","5",",",
      " ","2","0","2","4">>

\* 'Published on February 29, 2024'
Published_February_29_2024 ==
    <<"P","u","b","l","i","s","h","e","d"," ","o","n"," ","F","e","b","r","u","a","r","y"," ",
      "2","9",","," ","2","0","2","4">>

\* 'Author: Jane Doe'
AuthorJaneDoe ==
    <<"A","u","t","h","o","r",":"," ","J","a","n","e"," ","D","o","e">>

\* 'a b'
F_ab ==
    <<"a"," ","b">>

\* ' A&quot;c '
F_quot ==
    <<" ","A","&","q","u","o","t",";","c"," ">>

\* 'cc'
F_cc ==
    <<"c","c">>

\* '  '
F_blank ==
    <<" "," ">>

\* 'a'
T_a ==
    <<"a">>

\* 'C x'
T_Cx ==
    <<"C"," ","x">>

\* 'zz'
T_zz ==
    <<"z","z">>

\* 'B'
T_B ==
    <<"B">>

\* '"c'
T_quote ==
    <<"\"","c">>


----------------------------------------------------------------------------
(* Two sessions over the same article                                      *)

TwoSessions == {1, 2}

TwoQuestions == {Q_what_color, Q_sky}

InitTwo ==
    /\ sessions = [s \in TwoSessions |-> NoSession]
    /\ last = NoCall
    /\ http = NoCall
    /\ call = NoCall

NewTwo(s) ==
    /\ ~sessions[s].constructed
    /\ LET r == __init__(ArticleSky, Reply(R_hello))
       IN  /\ sessions' = [sessions EXCEPT ![s] = r.self]
           /\ last' = [op |-> "__init__", session |-> s, lookup |-> ArticleSky,
                       mech |-> Reply(R_hello), result |-> r.result]
    /\ UNCHANGED <<http, call>>

AskTwo(s) ==
    /\ sessions[s].constructed
    /\ \E user_input \in TwoQuestions, mech \in {SendError, Reply(R_hello)} :
         /\ Len(sessions[s].conversation_history) + Growth(mech) <= MaxTurns
         /\ LET r == chat_with_article(sessions[s], user_input, mech)
            IN  /\ sessions' = [sessions EXCEPT ![s] = r.self]
                /\ last' = [op |-> "chat_with_article", session |-> s,
                            user_input |-> user_input, mech |-> mech,
                            before |-> sessions[s].conversation_history,
                            result |-> r.result]
    /\ UNCHANGED <<http, call>>

NextTwo == \E s \in TwoSessions : NewTwo(s) \/ AskTwo(s)

SpecTwo == InitTwo /\ [][NextTwo]_vars

----------------------------------------------------------------------------
(* The HTTP handlers (app 2.py): one new ArticleChatbot per request        *)

\* chat_get / chat_post: try: ArticleChatbot(article_id).chat_with_article(question)
\* except Exception as e: raise HTTPException(status_code=500, detail=str(e))
chat_request(lookup, question, priming, mech) ==
    LET c == __init__(lookup, priming)
    IN  IF c.result.kind = "raise"
        THEN [status |-> 500, constructed |-> FALSE, body |-> None, detail |-> c.result.exc]
        ELSE LET r == chat_with_article(c.self, question, mech)
             IN  IF r.result.kind = "raise"
                 THEN [status |-> 500, constructed |-> TRUE, body |-> None,
                       detail |-> r.result.exc]
                 ELSE [status |-> 200, constructed |-> TRUE, body |-> r.result.value,
                       detail |-> "-"]

WithDate(row, d) ==
    [k \in DOMAIN row \cup {"publication_date"} |->
        IF k = "publication_date" THEN d ELSE row[k]]

Dates ==
    {Str(D_2024_03_05), Str(D_2024_3_5), Str(D_2024_02_29), Str(D_2023_02_29),
     Str(D_2024_02_30), Str(D_slashes), Str(D_timestamp), Str(D_0000_01_01),
     Str(<< >>), None}

ApiLookups == Articles \cup {NotFound, ArticleNoText} \cup {WithDate(ArticleRain, d) : d \in Dates}

ApiQuestions ==
    {Q_what_who, Q_when_who, Q_who_author, Q_tell_me_about, Q_WHEN, Q_about_time,
     Q_overview_author, Q_about, Q_summary, Q_sky, << >>}

NoResponse == [status |-> 0, constructed |-> FALSE, body |-> None, detail |-> "-"]

\* a request arrives for either route
InitApi ==
    /\ sessions = [s \in Sessions |-> NoSession]
    /\ last = NoCall
    /\ call = NoCall
    /\ \E op \in {"chat_get", "chat_post"}, lookup \in ApiLookups, question \in ApiQuestions,
          priming \in {SendError, Reply(R_hello)},
          mech \in {SendError, ReplyNoText, Reply(R_blue)} :
         http = [op |-> op, lookup |-> lookup, question |-> question, priming |-> priming,
                 mech |-> mech, done |-> FALSE, response |-> NoResponse]

Handle(op) ==
    /\ http.op = op
    /\ ~http.done
    /\ http' = [http EXCEPT !.done = TRUE,
                            !.response = chat_request(http.lookup, http.question,
                                                      http.priming, http.mech)]
    /\ UNCHANGED <<sessions, last, call>>

\* @app.get("/api/chat")
chat_get == Handle("chat_get")

\* @app.post("/api/chat")
chat_post == Handle("chat_post")

NextApi == chat_get \/ chat_post

SpecApi == InitApi /\ [][NextApi]_vars

----------------------------------------------------------------------------
(* Direct calls of the pure functions                                      *)

\* longest text and largest chunk size given to chunk_text
MaxTextLen == 5
MaxChunkSize == 3

Texts == UNION {[1..n -> {"a", "b"}] : n \in 0..MaxTextLen}

InitChunk ==
    /\ sessions = [s \in Sessions |-> NoSession]
    /\ last = NoCall
    /\ http = NoCall
    /\ \E text \in Texts, chunk_size \in 1..MaxChunkSize :
         call = [op |-> "chunk_text", text |-> text, chunk_size |-> chunk_size,
                 done |-> FALSE, result |-> << >>]

CallChunkText ==
    /\ call.op = "chunk_text"
    /\ ~call.done
    /\ call' = [call EXCEPT !.done = TRUE, !.result = chunk_text(call.text, call.chunk_size)]
    /\ UNCHANGED <<sessions, last, http>>

NextChunk == CallChunkText

SpecChunk == InitChunk /\ [][NextChunk]_vars

\* most fragments of a session, and largest top_k, given to get_relevant_context
MaxFragments == 3
MaxTopK == 3

Fragments == {F_ab, F_quot, F_cc, F_blank}

FragmentSeqs == UNION {[1..n -> Fragments] : n \in 0..MaxFragments}

Queries == {T_a, T_Cx, T_zz, << >>}

Windows ==
    {<< >>,
     <<<<"system", T_zz>>, <<"user", T_B>>>>,
     <<<<"system", T_a>>, <<"user", T_zz>>, <<"assistant", T_zz>>, <<"user", T_quote>>>>}

InitSelect ==
    /\ sessions = [s \in Sessions |-> NoSession]
    /\ last = NoCall
    /\ http = NoCall
    /\ \E chunks \in FragmentSeqs, history \in Windows, query \in Queries, top_k \in 0..MaxTopK :
         call = [op |-> "get_relevant_context",
                 self |-> [NoSession EXCEPT !.chunks = chunks,
                                            !.conversation_history = history],
                 query |-> query, top_k |-> top_k, done |-> FALSE, result |-> << >>]

CallGetRelevantContext ==
    /\ call.op = "get_relevant_context"
    /\ ~call.done
    /\ call' = [call EXCEPT !.done = TRUE,
                            !.result = get_relevant_context(call.self, call.query, call.top_k)]
    /\ UNCHANGED <<sessions, last, http>>

NextSelect == CallGetRelevantContext

SpecSelect == InitSelect /\ [][NextSelect]_vars

----------------------------------------------------------------------------
(* Properties                                                              *)

FallbackUsed(c) == c.op = "chat_with_article" /\ c.mech.send = "error"

Replied(c) == c.op = "chat_with_article" /\ c.mech.send = "ok" /\ c.mech.text.kind = "return"

\* C1: when send_message fails during chat_with_article, the call's outcome
\* is that of _handle_basic_response for the same question, and the ledger
\* after the call is the ledger before it.
C1_SendFailureUsesFallback ==
    FallbackUsed(last) =>
        LET self == sessions[last.session]
        IN  /\ self.conversation_history = last.before
            /\ last.result = _handle_basic_response(self, last.user_input)

\* a fallback answer was returned in a session that already holds a user
\* and an assistant turn
C1_Witness ==
    /\ FallbackUsed(last)
    /\ last.result.kind = "return"
    /\ Len(last.before) >= 3

\* C2: when the mechanism replies r to chat_with_article(q), the ledger
\* after the call is the ledger before it followed by (user, q) and
\* (assistant, r), in that order, and the call returns r.
C2_ReplyAppendsUserThenAssistant ==
    Replied(last) =>
        /\ sessions[last.session].conversation_history =
             last.before \o <<<<"user", last.user_input>>,
                              <<"assistant", last.mech.text.value[2]>>>>
        /\ last.result = Return(last.mech.text.value)

\* a reply was recorded after earlier turns
C2_Witness ==
    /\ Replied(last)
    /\ Len(last.before) >= 3

\* C3: a chat_with_article call in which the mechanism fails returns a
\* string; it never ends by raising.
C3_AskNeverRaises ==
    (last.op = "chat_with_article" /\ ~Replied(last)) =>
        (last.result.kind = "return" /\ IsStr(last.result.value))

\* C4: a failure of the priming send_message made while the session is
\* constructed does not reach the caller: a request for an article that
\* exists is not answered with an error because the mechanism is down.
C4_PrimingFailureAbsorbed ==
    (http.done /\ http.lookup # NotFound /\ http.priming.send = "error") =>
        http.response.status = 200

\* C5: the ledger of a constructed session is one system turn followed by
\* adjacent (user, assistant) pairs.
C5_LedgerShape ==
    \A s \in DOMAIN sessions :
        sessions[s].constructed =>
            LET h == sessions[s].conversation_history
            IN  /\ Len(h) % 2 = 1
                /\ h[1][1] = "system"
                /\ \A i \in 2..Len(h) :
                     h[i][1] = (IF i % 2 = 0 THEN "user" ELSE "assistant")

Other(s) == 3 - s

\* the last three turns of a ledger (all of them when it holds fewer)
LastThree(h) == [k \in 1..Min(3, Len(h)) |-> h[Len(h) - Min(3, Len(h)) + k]]

\* C6 as stated: the fallback answer one session returns for a question is
\* the answer the other session over the same article returns for it,
\* whatever their ledgers hold.
C6_FallbackIgnoresLedger ==
    (FallbackUsed(last) /\ sessions[Other(last.session)].constructed) =>
        last.result = _handle_basic_response(sessions[Other(last.session)], last.user_input)

\* C6, amended: the fallback answer depends on the ledger through its last
\* three turns only: two sessions over the same article whose last three
\* turns are equal return the same fallback answer for the same question.
C6_FallbackReadsLastThreeTurns ==
    (/\ FallbackUsed(last)
     /\ sessions[Other(last.session)].constructed
     /\ LastThree(sessions[1].conversation_history) = LastThree(sessions[2].conversation_history)) =>
        last.result = _handle_basic_response(sessions[Other(last.session)], last.user_input)

\* a fallback answer in one of two sessions whose ledgers differ and end in
\* the same three turns
C6_Witness ==
    /\ FallbackUsed(last)
    /\ sessions[Other(last.session)].constructed
    /\ sessions[1].conversation_history # sessions[2].conversation_history
    /\ LastThree(sessions[1].conversation_history) = LastThree(sessions[2].conversation_history)

Has(question, word) == contains(lower(question), word)

\* the category of a question under the precedence what, when, who, summary
Category(question) ==
    IF Has(question, W_what) \/ Has(question, W_tell_me_about) THEN "what"
    ELSE IF Has(question, W_when) \/ Has(question, W_date) \/ Has(question, W_time) THEN "when"
    ELSE IF Has(question, W_who) \/ Has(question, W_author) THEN "who"
    ELSE IF Has(question, W_summary) \/ Has(question, W_overview) \/ Has(question, W_about)
    THEN "summary"
    ELSE "general"

CategoryAnswer(self, category, question) ==
    CASE category = "what"    -> _handle_what_question(self, question)
      [] category = "when"    -> _handle_when_question(self)
      [] category = "who"     -> _handle_who_question(self)
      [] category = "summary" -> _handle_summary_question(self)
      [] category = "general" -> _handle_general_question(self, question)

\* the outcome of a handled request as the outcome of chat_with_article
Outcome(response) ==
    IF response.status = 200 THEN Return(response.body) ELSE Raise(response.detail)

\* a request whose question was answered by the fallback of a new session
FallbackRequest == http.done /\ http.response.constructed /\ http.mech.send = "error"

\* C7: the fallback answers by the first category, in the order what, when,
\* who, summary, general, whose words the lower-cased question contains; a
\* question with 'what' and 'who' is answered as a what question, one with
\* 'when' and 'who' as a when question.
C7_DispatchPrecedence ==
    FallbackRequest =>
        /\ Outcome(http.response) =
             CategoryAnswer(__init__(http.lookup, http.priming).self,
                            Category(http.question), http.question)
        /\ (http.question = Q_what_who /\ http.lookup = ArticleSky) =>
             (http.response.body # Str(AuthorJaneDoe))
        /\ (http.question = Q_when_who /\ http.lookup = ArticleSky) =>
             (http.response.body = Str(Published_March_05_2024))

\* 'when who' asked of an article with an author and a date is answered
\* with the date
C7_Witness ==
    /\ FallbackRequest
    /\ http.question = Q_when_who
    /\ http.lookup = ArticleSky
    /\ http.response.body = Str(Published_March_05_2024)

PublicationDate(row) == get(row, "publication_date", Str(<< >>))

DateAbsent(row) == PublicationDate(row) = None \/ PublicationDate(row) = Str(<< >>)

DateFormats(row) == ~DateAbsent(row) /\ strptime(PublicationDate(row)[2]).kind = "return"

WhenRequest == FallbackRequest /\ Category(http.question) = "when"

\* C10 as stated: a when question is answered without an error, with
\* 'Published on ...' for a date that formats, 'Publication date not
\* available' when formatting the stored date fails, and 'Error retrieving
\* publication date' when the date is absent.
C10_DateAnswersAsStated ==
    WhenRequest =>
        /\ http.response.status = 200
        /\ http.response.body =
             (IF DateFormats(http.lookup)
              THEN Str(PublishedOn \o strftime(strptime(PublicationDate(http.lookup)[2]).value))
              ELSE IF ~DateAbsent(http.lookup) THEN Str(DateNotAvailable)
              ELSE Str(DateError))

\* C10, amended: a when question is answered without an error, with
\* 'Published on <Month> <Day>, <Year>' for a date that formats, 'Error
\* retrieving publication date' when formatting the stored date fails, and
\* 'Publication date not available' when the date is absent, NULL or empty.
C10_DateAnswers ==
    WhenRequest =>
        /\ http.response.status = 200
        /\ http.response.body =
             (IF DateFormats(http.lookup)
              THEN Str(PublishedOn \o strftime(strptime(PublicationDate(http.lookup)[2]).value))
              ELSE IF ~DateAbsent(http.lookup) THEN Str(DateError)
              ELSE Str(DateNotAvailable))
        /\ PublicationDate(http.lookup) = Str(D_2024_02_29) =>
             http.response.body = Str(Published_February_29_2024)
        /\ PublicationDate(http.lookup) \in {Str(D_2024_3_5), Str(D_2024_03_05)} =>
             http.response.body = Str(Published_March_05_2024)

\* a when question asked of an article whose stored date is 30 February
C10_Witness ==
    /\ WhenRequest
    /\ PublicationDate(http.lookup) = Str(D_2024_02_30)
    /\ http.response.body = Str(DateError)

\* the whitespace-separated tokens of s, as a set
Tokens(s) ==
    {SubSeq(s, a, b) : <<a, b>> \in
        {p \in (1..Len(s)) \X (1..Len(s)) :
            /\ p[1] <= p[2]
            /\ \A i \in p[1]..p[2] : s[i] \notin Whitespace
            /\ (p[1] = 1 \/ s[p[1] - 1] \in Whitespace)
            /\ (p[2] = Len(s) \/ s[p[2] + 1] \in Whitespace)}}

\* the terms of a query and of the messages of the last three turns
Terms(self, query) ==
    Tokens(lower(query)) \cup
    UNION {Tokens(lower(self.conversation_history[i][2])) :
             i \in {j \in 1..Len(self.conversation_history) :
                      j > Len(self.conversation_history) - 3}}

\* the indices, in document order, of the fragments some term occurs in
Matching(self, query) ==
    SelectSeq(Tabulate(Len(self.chunks), LAMBDA i : i),
              LAMBDA i : \E t \in Terms(self, query) : contains(lower(self.chunks[i]), t))

\* the first k matching fragments, cleaned and joined by single spaces
FirstMatches(self, query, k) ==
    IF Len(Matching(self, query)) = 0 THEN NoInformation
    ELSE join(<<" ">>, Tabulate(k, LAMBDA n :
                 strip(replace_quot(self.chunks[Matching(self, query)[n]]))))

Max(a, b) == IF a > b THEN a ELSE b

\* C8 as stated: the result is the first min(topK, m) matching fragments in
\* document order, cleaned and joined, for every topK; the no-match
\* sentence when m = 0.
C8_FirstTopKMatches ==
    (call.op = "get_relevant_context" /\ call.done) =>
        call.result = FirstMatches(call.self, call.query,
                                   Min(call.top_k, Len(Matching(call.self, call.query))))

\* C8, amended: the result is the first min(max(topK, 1), m) matching
\* fragments in document order, cleaned and joined: never more than topK
\* when topK >= 1, and the first matching fragment alone when topK <= 0;
\* the no-match sentence when m = 0.
C8_FirstMatchesInDocumentOrder ==
    (call.op = "get_relevant_context" /\ call.done) =>
        call.result = FirstMatches(call.self, call.query,
                                   Min(Max(call.top_k, 1), Len(Matching(call.self, call.query))))

\* the first fragment does not match, two later ones do, and top_k is 1:
\* the result is the earlier of the two
C8_Witness ==
    /\ call.op = "get_relevant_context"
    /\ call.done
    /\ call.top_k = 1
    /\ Len(Matching(call.self, call.query)) >= 2
    /\ Matching(call.self, call.query)[1] > 1
    /\ call.result = strip(replace_quot(call.self.chunks[Matching(call.self, call.query)[1]]))

RECURSIVE Concat(_)
Concat(parts) == IF Len(parts) = 0 THEN << >> ELSE parts[1] \o Concat(Tail(parts))

\* C9: concatenating chunk_text(s, chunkSize) in order gives s; every
\* fragment but the last has length chunkSize, the last has length in
\* 1..chunkSize, and the empty string gives no fragment.
C9_ChunksRoundTrip ==
    (call.op = "chunk_text" /\ call.done) =>
        /\ Concat(call.result) = call.text
        /\ \A i \in 1..(Len(call.result) - 1) : Len(call.result[i]) = call.chunk_size
        /\ Len(call.result) > 0 =>
             Len(call.result[Len(call.result)]) \in 1..call.chunk_size
        /\ call.text = << >> => call.result = << >>

\* five characters cut in chunks of two: the last fragment is shorter
C9_Witness ==
    /\ call.op = "chunk_text"
    /\ call.done
    /\ Len(call.text) = 5
    /\ call.chunk_size = 2
    /\ Len(call.result) = 3
====
